---- MODULE Spec2Model ----
(***************************************************************************)
(* Model of tracer/tracer.go: the Tracer, its span constructors, record,   *)
(* FlushTraces, flushServices, flush, the service registry and the         *)
(* background worker with its shutdown path.                               *)
(*                                                                         *)
(* Caller threads are modelled by the calls they have in flight: a record  *)
(* call between its test of t.enabled and its Push, a FlushTraces call     *)
(* between its Pop and its SendTraces, a SetServiceInfo call blocked on    *)
(* the full channel, a Stop call waiting on the WaitGroup.  The worker     *)
(* goroutine has an explicit program counter.                              *)
(***************************************************************************)
EXTENDS Integers, Sequences, FiniteSets, TLC

\* ---------------------------------------------------------------- bounds
\* number of spans the callers create
MaxSpans == 2
\* number of spans the callers create in the runs that exercise the grouping
\* by trace id (two spans of one trace and one of another)
GroupSpans == 3
\* number of SetServiceInfo calls the callers make
MaxServiceCalls == 3
\* number of spans and of SetServiceInfo calls the callers make in the runs
\* that exercise flush with traces and services together
FlushSpans == 1
FlushServiceCalls == 1
\* capacity of the spans buffer (newSpansBuffer(spanBufferDefaultMaxSize)),
\* scaled down so that a full buffer is reachable
BufferMaxSize == 1
\* capacity of serviceChan (make(chan Service, 10)), scaled down so that a
\* full channel is reachable
ServiceChanCap == 2

\* sample rates are counted in units of 1/RateUnit: rate r stands for the
\* float64 r/RateUnit, so RateUnit itself is the rate 1
RateUnit == 2
Rates == (0 - 1) .. (RateUnit + 1)

SpanIDs == 1 .. GroupSpans
\* the nil *Span
NilSpan == 0

\* the Service values the callers submit
Service(n, a, ty) == [Name |-> n, App |-> a, AppType |-> ty]
Names == {"n1", "n2"}
ServiceInputs == { Service("n1", "a1", "web"), Service("n1", "a2", "web"),
                   Service("n1", "a1", "db"), Service("n2", "a1", "web") }
\* the zero Service, what a Go map lookup yields for a missing key
NoService == Service("", "", "")

VARIABLES
    transport,          \* "present" or "nil": t.transport
    sampler,            \* t.sampler: [all |-> BOOLEAN, rate |-> Int]
    enabled,            \* t.enabled
    buffer,             \* t.buffer: sequence of span ids
    span,               \* the spans created so far, by span id
    services,           \* t.services: name -> Service (NoService: no entry)
    servicesModified,   \* t.servicesModified
    serviceChan,        \* t.serviceChan: sequence of Service
    blocked,            \* Service values of SetServiceInfo calls blocked in the send
    exitClosed,         \* close(t.exit) has run
    stopReturned,       \* Stop has returned (exitWG.Wait is over)
    wpc,                \* worker: position in worker()/flush()
    wfinal,             \* worker: the flush in progress is the one of the exit case
    nbSpans,            \* worker: flush's local nbSpans
    wspans,             \* worker: FlushTraces' local spans
    cflush,             \* caller FlushTraces in flight: [active, spans]
    svcCalls,           \* number of SetServiceInfo calls made so far
    maxSize,            \* t.buffer.maxSize
    budget,             \* what the callers do in this run: [spans, calls]
    \* ---- history variables (observations of the calls; no code reads them)
    op,                 \* the operation that ran last, with what it saw
    hist                \* what has happened so far, see HistInit

vars == << transport, sampler, enabled, buffer, span, services, servicesModified,
           serviceChan, blocked, exitClosed, stopReturned, wpc, wfinal, nbSpans,
           wspans, cflush, svcCalls, maxSize, budget, op, hist >>

\* ------------------------------------------------------------ helpers
Range(s) == { s[i] : i \in 1 .. Len(s) }

Min(S) == CHOOSE x \in S : \A y \in S : x <= y

\* an Equal that compares the names only
EqualNames(s, s2) == s.Name = s2.Name

\* Service.Equal
Equal(s, s2) == s.Name = s2.Name /\ s.App = s2.App /\ s.AppType = s2.AppType

\* span ids not yet handed out
FreeIDs == { i \in 1 .. budget.spans : span[i].st = "free" }

\* nextSpanID(): a fresh id (random in the code, unique with high probability)
nextSpanID == Min(FreeIDs)

\* a span: its state in the model, the fields TraceID and Sampled, and two
\* observations: whether NewChildSpan made it for a nil parent, and how often
\* the sampler was invoked on it
FreeSpan == [st |-> "free", TraceID |-> 0, Sampled |-> FALSE,
             nilParent |-> FALSE, sampleCalls |-> 0]

\* NewSpan(name, service, resource, spanID, traceID, parentID, tracer):
\* a started span, Sampled by default
NewSpan(spanID, traceID, parentID) ==
    [st |-> "open", TraceID |-> traceID, Sampled |-> TRUE,
     nilParent |-> FALSE, sampleCalls |-> 0]

\* newAllSampler() / newRateSampler(rate)
newAllSampler == [all |-> TRUE, rate |-> RateUnit]
newRateSampler(r) == [all |-> FALSE, rate |-> r]

\* sampler.Sample(span): the values Sampled may have afterwards.  The
\* keep-all policy leaves the span kept; the rate policy keeps nothing at
\* rate 0 and either outcome at a rate strictly between 0 and 1.
SampleOutcomes(smp, sp) ==
    IF smp.all THEN { sp.Sampled }
    ELSE IF smp.rate = 0 THEN { FALSE }
    ELSE { TRUE, FALSE }

\* t.sampler.Sample(span): the spans that may result
Sample(smp, sp) ==
    { [sp EXCEPT !.Sampled = o, !.sampleCalls = @ + 1] : o \in SampleOutcomes(smp, sp) }

\* ------------------------------------------------------- span creation
\* NewRootSpan, lines 115-120: the spans it may return
RootSpan(id, smp) == Sample(smp, NewSpan(id, id, 0))

\* NewChildSpan with parent == nil, lines 131-135: the spans it may return
NilParentSpan(id, smp) ==
    { [sp EXCEPT !.nilParent = TRUE] : sp \in Sample(smp, NewSpan(id, id, id)) }

\* a NewChildSpan that runs the sampler on the child, as NewRootSpan does
ChildSpanSampled(id, p, parent) == Sample(sampler, NewSpan(id, parent.TraceID, p))

\* NewChildSpan with a parent, lines 137-142; p is the parent's span id.  The
\* spans it may return (one)
ChildSpan(id, p, parent) ==
    { [NewSpan(id, parent.TraceID, p) EXCEPT !.Sampled = parent.Sampled] }

\* a SetSampleRate that takes every rate from 1 up as keep-all
SetSampleRateClamped(smp, sampleRate) ==
    IF sampleRate >= RateUnit THEN newAllSampler
    ELSE IF sampleRate >= 0 /\ sampleRate < RateUnit THEN newRateSampler(sampleRate)
    ELSE smp

\* SetSampleRate, lines 93-101: the sampler after the call
SetSampleRateResult(smp, sampleRate) ==
    IF sampleRate = RateUnit THEN newAllSampler
    ELSE IF sampleRate >= 0 /\ sampleRate < RateUnit THEN newRateSampler(sampleRate)
    ELSE smp

\* ------------------------------------------------------------ the buffer
\* spansBuffer.Push: appends under the buffer's lock, drops at capacity
Push(buf, s) == IF Len(buf) < maxSize THEN Append(buf, s) ELSE buf

\* spansBuffer.Pop: returns everything and leaves the buffer empty, under the lock
Pop(buf) == [spans |-> buf, rest |-> << >>]

\* a record that does not test span.Sampled
recordCondEnabledOnly(en, sp) == en

\* a record with the test of t.enabled inverted
recordCondInverted(en, sp) == ~en /\ sp.Sampled

\* record's condition, line 155
recordCond(en, sp) == en /\ sp.Sampled

\* a FlushTraces that does not test t.enabled
FlushTracesBailNoEnabled(en, tr, spans) == tr = "nil" \/ Len(spans) = 0

\* a FlushTraces that does not test len(spans)
FlushTracesBailNoLen(en, tr, spans) == ~en \/ tr = "nil"

\* FlushTraces' early return, line 174
FlushTracesBail(en, tr, spans) == ~en \/ tr = "nil" \/ Len(spans) = 0

\* a grouping keyed by the span's own id instead of its trace id
RECURSIVE traceBufferBySpanID(_, _)
traceBufferBySpanID(spans, sp) ==
    IF spans = << >> THEN [k \in SpanIDs |-> << >>]
    ELSE LET n == Len(spans)
             tb == traceBufferBySpanID(SubSeq(spans, 1, n - 1), sp)
             s == spans[n]
         IN [tb EXCEPT ![s] = Append(@, s)]

\* lines 184-187: traceBuffer[s.TraceID] = append(traceBuffer[s.TraceID], s)
RECURSIVE traceBufferOf(_, _)
traceBufferOf(spans, sp) ==
    IF spans = << >> THEN [k \in SpanIDs |-> << >>]
    ELSE LET n == Len(spans)
             tb == traceBufferOf(SubSeq(spans, 1, n - 1), sp)
             s == spans[n]
         IN [tb EXCEPT ![sp[s].TraceID] = Append(@, s)]

\* lines 183-190: the traces handed to SendTraces; the order of the groups is
\* the map's iteration order, so they are kept as a set
GroupByTrace(spans, sp) ==
    LET tb == traceBufferOf(spans, sp)
    IN { tb[k] : k \in { j \in SpanIDs : tb[j] # << >> } }

\* ---------------------------------------------------- the service registry
\* an appendService that sets the flag whether the entry changes or not
appendServiceAlways(svcs, mod, service) ==
    [services |-> [svcs EXCEPT ![service.Name] = service], servicesModified |-> TRUE]

\* appendService, lines 221-226
appendService(svcs, mod, service) ==
    LET s == svcs[service.Name]
        found == s # NoService
    IN IF ~found \/ ~Equal(s, service)
       THEN [services |-> [svcs EXCEPT ![service.Name] = service], servicesModified |-> TRUE]
       ELSE [services |-> svcs, servicesModified |-> mod]

\* a flushServices that does not test t.enabled
flushServicesBailNoEnabled(en, mod) == ~mod

\* flushServices' early return, line 197
flushServicesBail(en, mod) == ~en \/ ~mod

\* the map handed to SendServices, line 201
SendServicesArg(svcs) == svcs

\* ------------------------------------------------------------- history
NoServices == [n \in Names |-> NoService]

HistInit ==
    [ kept |-> {},            \* spans whose record ran with the tracer enabled and Sampled set
      dropped |-> {},         \* spans whose Push found the buffer at capacity
      drains |-> [i \in SpanIDs |-> 0],   \* how many Pop calls returned the span
      sent |-> {},            \* spans handed to some SendTraces call
      recBeforeStop |-> {},   \* spans whose record call was over when Stop was called
      everDisabled |-> FALSE, \* SetEnabled(false) has been called
      lastServices |-> [called |-> FALSE, arg |-> NoServices, ok |-> TRUE],
                              \* the latest SendServices call: its map and its answer
      svcSendFailed |-> FALSE,    \* some SendServices call returned an error
      svcSucceeded |-> FALSE,     \* some SendServices call succeeded
      drainApplied |-> FALSE,     \* drainServices has applied an update
      submitted |-> {},       \* Service values passed to SetServiceInfo so far
      retBeforeStop |-> {},   \* those whose call had returned when Stop was called
      lastApplied |-> NoServices,  \* per name, the latest value the worker received
      validRate |-> RateUnit,      \* the latest rate in [0, 1] given to SetSampleRate
      recDisabled |-> {},     \* spans whose record ran with the tracer disabled
      lost |-> {},            \* spans of a SendTraces call that returned an error
      discarded |-> {},       \* spans drained by a FlushTraces that returned at line 174
      changed |-> FALSE,      \* the map has changed since the last successful SendServices
      flushErr |-> FALSE ]    \* the FlushTraces of the flush in progress returned an error

Other == [name |-> "other"]

Idle == [active |-> FALSE, spans |-> << >>]

\* the state after NewTracerTransport(transport) with a buffer of size b.size,
\* for callers that make up to b.spans spans and b.calls SetServiceInfo calls
InitWith(b) ==
    /\ transport \in {"present", "nil"}
    /\ sampler = newAllSampler
    /\ enabled = TRUE
    /\ buffer = << >>
    /\ span = [i \in SpanIDs |-> FreeSpan]
    /\ services = NoServices
    /\ servicesModified = FALSE
    /\ serviceChan = << >>
    /\ blocked = {}
    /\ exitClosed = FALSE
    /\ stopReturned = FALSE
    /\ wpc = "select"
    /\ wfinal = FALSE
    /\ nbSpans = 0
    /\ wspans = << >>
    /\ cflush = Idle
    /\ svcCalls = 0
    /\ maxSize = b.size
    /\ budget = [spans |-> b.spans, calls |-> b.calls]
    /\ op = Other
    /\ hist = HistInit

Init == InitWith([spans |-> MaxSpans, calls |-> MaxServiceCalls, size |-> BufferMaxSize])

workerVars == << wpc, wfinal, nbSpans, wspans >>
registryVars == << services, servicesModified >>
chanVars == << serviceChan, blocked, svcCalls >>
stopVars == << exitClosed, stopReturned >>
fixedVars == << transport, maxSize, budget >>

\* an unrecovered panic in the worker ends the process, and with it every
\* caller thread
Alive == wpc # "panicked"

\* ------------------------------------------------------ caller operations
\* NewRootSpan(name, service, resource)
NewRootSpan ==
    /\ Alive
    /\ FreeIDs # {}
    /\ \E sp \in RootSpan(nextSpanID, sampler) :
          span' = [span EXCEPT ![nextSpanID] = sp]
    /\ op' = [name |-> "NewRootSpan", id |-> nextSpanID]
    /\ UNCHANGED << fixedVars, sampler, enabled, buffer, registryVars, chanVars,
                    stopVars, workerVars, cflush, hist >>

\* NewChildSpan(name, parent) with the span p as parent; p = NilSpan stands
\* for the nil pointer
NewChildSpan(p) ==
    /\ Alive
    /\ FreeIDs # {}
    /\ p # NilSpan => span[p].st # "free"
    /\ IF p = NilSpan
       THEN \E sp \in NilParentSpan(nextSpanID, sampler) :
               span' = [span EXCEPT ![nextSpanID] = sp]
       ELSE \E sp \in ChildSpan(nextSpanID, p, span[p]) :
               span' = [span EXCEPT ![nextSpanID] = sp]
    /\ op' = [name |-> "NewChildSpan", id |-> nextSpanID, parent |-> p]
    /\ UNCHANGED << fixedVars, sampler, enabled, buffer, registryVars, chanVars,
                    stopVars, workerVars, cflush, hist >>

\* span.Finish() -> t.record(span), line 155: the test of t.enabled and
\* span.Sampled.  A span that passes waits for its Push.
record(s) ==
    /\ Alive
    /\ span[s].st = "open"
    /\ LET pass == recordCond(enabled, span[s])
       IN /\ span' = [span EXCEPT ![s].st = IF pass THEN "pushing" ELSE "finished"]
          /\ hist' = [hist EXCEPT
                        !.kept = IF enabled /\ span[s].Sampled THEN @ \cup {s} ELSE @,
                        !.recDisabled = IF ~enabled THEN @ \cup {s} ELSE @,
                        !.recBeforeStop = IF ~pass /\ ~exitClosed THEN @ \cup {s} ELSE @]
    /\ op' = Other
    /\ UNCHANGED << fixedVars, sampler, enabled, buffer, registryVars, chanVars,
                    stopVars, workerVars, cflush >>

\* record, line 156: t.buffer.Push(span)
recordPush(s) ==
    /\ Alive
    /\ span[s].st = "pushing"
    /\ buffer' = Push(buffer, s)
    /\ span' = [span EXCEPT ![s].st = "finished"]
    /\ hist' = [hist EXCEPT
                  !.dropped = IF Len(buffer) >= maxSize THEN @ \cup {s} ELSE @,
                  !.recBeforeStop = IF ~exitClosed THEN @ \cup {s} ELSE @]
    /\ op' = Other
    /\ UNCHANGED << fixedVars, sampler, enabled, registryVars, chanVars,
                    stopVars, workerVars, cflush >>

\* SetEnabled(enabled)
SetEnabled(b) ==
    /\ Alive
    /\ enabled' = b
    /\ hist' = [hist EXCEPT !.everDisabled = @ \/ ~b]
    /\ op' = Other
    /\ UNCHANGED << fixedVars, sampler, buffer, span, registryVars, chanVars,
                    stopVars, workerVars, cflush >>

\* SetSampleRate(sampleRate)
SetSampleRate(r) ==
    /\ Alive
    /\ sampler' = SetSampleRateResult(sampler, r)
    /\ hist' = [hist EXCEPT !.validRate = IF r >= 0 /\ r <= RateUnit THEN r ELSE @]
    /\ op' = [name |-> "SetSampleRate", rate |-> r, before |-> sampler]
    /\ UNCHANGED << fixedVars, enabled, buffer, span, registryVars, chanVars,
                    stopVars, workerVars, cflush >>

\* SetServiceInfo(name, app, appType), line 106: the send on serviceChan goes
\* through at once when the channel has room, and blocks the caller otherwise
SetServiceInfo(service) ==
    /\ Alive
    /\ svcCalls < budget.calls
    /\ service \notin blocked
    /\ svcCalls' = svcCalls + 1
    /\ IF Len(serviceChan) < ServiceChanCap
       THEN /\ serviceChan' = Append(serviceChan, service)
            /\ blocked' = blocked
            /\ hist' = [hist EXCEPT
                          !.submitted = @ \cup {service},
                          !.retBeforeStop = IF ~exitClosed THEN @ \cup {service} ELSE @]
       ELSE /\ serviceChan' = serviceChan
            /\ blocked' = blocked \cup {service}
            /\ hist' = [hist EXCEPT !.submitted = @ \cup {service}]
    /\ op' = Other
    /\ UNCHANGED << fixedVars, sampler, enabled, buffer, span, registryVars,
                    stopVars, workerVars, cflush >>

\* a blocked send on serviceChan completes once the channel has room, and
\* SetServiceInfo returns
SetServiceInfoReturn(service) ==
    /\ Alive
    /\ service \in blocked
    /\ Len(serviceChan) < ServiceChanCap
    /\ serviceChan' = Append(serviceChan, service)
    /\ blocked' = blocked \ {service}
    /\ hist' = [hist EXCEPT
                  !.retBeforeStop = IF ~exitClosed THEN @ \cup {service} ELSE @]
    /\ op' = Other
    /\ UNCHANGED << fixedVars, sampler, enabled, buffer, span, registryVars, svcCalls,
                    stopVars, workerVars, cflush >>

\* no "lost %d spans" line was logged
NoLog == 0 - 1

\* history of a Pop that returned spans
Drained(spans) ==
    [hist EXCEPT !.drains = [i \in SpanIDs |->
                     IF i \in Range(spans) /\ @[i] < 2 THEN @[i] + 1 ELSE @[i]]]

\* a FlushTraces that pushes the drained spans back when SendTraces fails
bufferAfterFlushRequeued(buf, spans, err) == IF err THEN spans \o buf ELSE buf

\* FlushTraces, lines 173-193: t.buffer after the call.  Nothing is pushed
\* back, whether the call returns early, sends or fails
bufferAfterFlush(buf, spans, err) == buf

\* FlushTraces, lines 173-193, on the spans its Pop returned: whether it
\* returns an error, the buffer it leaves, and the observations of the call.
\* ok is the transport's answer.
FlushTracesRest(spans, ok) ==
    LET bail == FlushTracesBail(enabled, transport, spans)
        traces == GroupByTrace(spans, span)
    IN [ err |-> ~bail /\ ~ok,
         buffer |-> bufferAfterFlush(buffer, spans, ~bail /\ ~ok),
         hist |-> [hist EXCEPT
                     !.sent = IF bail THEN @ ELSE @ \cup UNION { Range(g) : g \in traces },
                     !.lost = IF ~bail /\ ~ok THEN @ \cup Range(spans) ELSE @,
                     !.discarded = IF bail THEN @ \cup Range(spans) ELSE @],
         op |-> [name |-> "FlushTraces", byFlush |-> FALSE,
                 drained |-> spans, enabled |-> enabled,
                 calls |-> IF bail THEN 0 ELSE 1,
                 traces |-> IF bail THEN {} ELSE traces,
                 err |-> ~bail /\ ~ok, lost |-> NoLog, lostBefore |-> hist.lost] ]

\* FlushTraces called by a caller thread, line 164: spans := t.buffer.Pop()
FlushTraces ==
    /\ Alive
    /\ ~cflush.active
    /\ cflush' = [active |-> TRUE, spans |-> Pop(buffer).spans]
    /\ buffer' = Pop(buffer).rest
    /\ hist' = Drained(Pop(buffer).spans)
    /\ op' = Other
    /\ UNCHANGED << fixedVars, sampler, enabled, span, registryVars, chanVars,
                    stopVars, workerVars >>

\* FlushTraces called by a caller thread, lines 173-193
FlushTracesSend ==
    /\ Alive
    /\ cflush.active
    /\ \E ok \in BOOLEAN :
          LET r == FlushTracesRest(cflush.spans, ok)
          IN /\ hist' = r.hist
             /\ op' = r.op
             /\ buffer' = r.buffer
    /\ cflush' = Idle
    /\ UNCHANGED << fixedVars, sampler, enabled, span, registryVars, chanVars,
                    stopVars, workerVars >>

\* Stop, line 77: close(t.exit).  A second Stop is undefined and not modelled.
Stop ==
    /\ Alive
    /\ ~exitClosed
    /\ exitClosed' = TRUE
    /\ op' = Other
    /\ UNCHANGED << fixedVars, sampler, enabled, buffer, span, registryVars, chanVars,
                    stopReturned, workerVars, cflush, hist >>

\* Stop, line 78: t.exitWG.Wait() returns once the worker has run Done
StopReturn ==
    /\ Alive
    /\ exitClosed /\ ~stopReturned
    /\ wpc = "exited"
    /\ stopReturned' = TRUE
    /\ op' = Other
    /\ UNCHANGED << fixedVars, sampler, enabled, buffer, span, registryVars, chanVars,
                    exitClosed, workerVars, cflush, hist >>

\* ------------------------------------------------------------ the worker
\* the worker receives a Service from serviceChan and applies it
\* (line 252, and line 232 in drainServices)
Receive(draining) ==
    LET service == Head(serviceChan)
        r == appendService(services, servicesModified, service)
    IN /\ serviceChan' = Tail(serviceChan)
       /\ services' = r.services
       /\ servicesModified' = r.servicesModified
       /\ hist' = [hist EXCEPT !.lastApplied = [@ EXCEPT ![service.Name] = service],
                                !.drainApplied = @ \/ draining,
                                !.changed = @ \/ r.services # services]
       /\ op' = [name |-> "appendService", service |-> service,
                 modBefore |-> servicesModified, mapBefore |-> services,
                 succeededBefore |-> hist.svcSucceeded]

\* worker, lines 248-249: case <-flushTicker.C
workerTick ==
    /\ wpc = "select"
    /\ wpc' = "flush"
    /\ op' = Other
    /\ UNCHANGED << fixedVars, sampler, enabled, buffer, span, registryVars, chanVars,
                    stopVars, wfinal, nbSpans, wspans, cflush, hist >>

\* worker, lines 251-252: case service := <-t.serviceChan
workerService ==
    /\ wpc = "select"
    /\ serviceChan # << >>
    /\ Receive(FALSE)
    /\ UNCHANGED << fixedVars, sampler, enabled, buffer, span, blocked, svcCalls,
                    stopVars, workerVars, cflush >>

\* an exit case without drainServices
AfterExitFlush == "flush"

\* worker, line 258: the exit case starts with t.drainServices()
AfterExit == "drain"

\* an exit case that returns without the last flush
AfterDrainReturn == "exited"

\* worker, line 260: then it runs t.flush()
AfterDrain == "flush"

\* worker, line 254: case <-t.exit
workerExit ==
    /\ wpc = "select"
    /\ exitClosed
    /\ wpc' = AfterExit
    /\ wfinal' = TRUE
    /\ op' = Other
    /\ UNCHANGED << fixedVars, sampler, enabled, buffer, span, registryVars, chanVars,
                    stopVars, nbSpans, wspans, cflush, hist >>

\* drainServices, lines 229-236: one turn of the loop
drainServices ==
    /\ wpc = "drain"
    /\ IF serviceChan # << >>
       THEN /\ Receive(TRUE)
            /\ wpc' = wpc
       ELSE /\ wpc' = AfterDrain
            /\ op' = Other
            /\ UNCHANGED << serviceChan, registryVars, hist >>
    /\ UNCHANGED << fixedVars, sampler, enabled, buffer, span, blocked, svcCalls,
                    stopVars, wfinal, nbSpans, wspans, cflush >>

\* where the worker goes after flush: back to the select, or out of worker()
\* (return, then the deferred flushTicker.Stop and exitWG.Done)
AfterFlush == IF wfinal THEN "exited" ELSE "select"

\* a flush that returns when FlushTraces fails
AfterFlushTracesReturn(err) == IF err THEN AfterFlush ELSE "services"

\* flush, lines 211-216: after FlushTraces, with an error (logged) or
\* without, comes flushServices
AfterFlushTraces(err) == "services"

\* flush, line 210: nbSpans := t.buffer.Len()
flushLen ==
    /\ wpc = "flush"
    /\ nbSpans' = Len(buffer)
    /\ wpc' = "pop"
    /\ op' = Other
    /\ UNCHANGED << fixedVars, sampler, enabled, buffer, span, registryVars, chanVars,
                    stopVars, wfinal, wspans, cflush, hist >>

\* flush -> FlushTraces, line 164: spans := t.buffer.Pop()
flushPop ==
    /\ wpc = "pop"
    /\ wspans' = Pop(buffer).spans
    /\ buffer' = Pop(buffer).rest
    /\ hist' = Drained(Pop(buffer).spans)
    /\ wpc' = "send"
    /\ op' = Other
    /\ UNCHANGED << fixedVars, sampler, enabled, span, registryVars, chanVars,
                    stopVars, wfinal, nbSpans, cflush >>

\* flush -> FlushTraces, lines 173-193, and flush's logging of an error,
\* lines 211-214: "lost %d spans" with nbSpans
flushTraces ==
    /\ wpc = "send"
    /\ \E ok \in BOOLEAN :
          LET r == FlushTracesRest(wspans, ok)
          IN /\ hist' = [r.hist EXCEPT !.flushErr = r.err]
             /\ op' = [r.op EXCEPT !.byFlush = TRUE,
                                   !.lost = IF r.err THEN nbSpans ELSE @]
             /\ buffer' = r.buffer
             /\ wpc' = AfterFlushTraces(r.err)
    /\ nbSpans' = 0
    /\ wspans' = << >>
    /\ UNCHANGED << fixedVars, sampler, enabled, span, registryVars, chanVars,
                    stopVars, wfinal, cflush >>

\* a flushServices that clears the flag whatever SendServices returns
servicesModifiedAfterCleared(mod, ok) == FALSE

\* flushServices, lines 201-206: t.servicesModified after the SendServices
\* call; an error returns before the flag is cleared
servicesModifiedAfter(mod, ok) == IF ok THEN FALSE ELSE mod

\* flush -> flushServices, lines 196-207 and 216-218.  Calling SendServices on
\* a nil transport is a nil dereference: the goroutine panics.
flushServices ==
    /\ wpc = "services"
    /\ LET o == [name |-> "flushServices", enabled |-> enabled,
                 modBefore |-> servicesModified, succeededBefore |-> hist.svcSucceeded,
                 failedBefore |-> hist.lastServices.called /\ ~hist.lastServices.ok,
                 tracesFailed |-> hist.flushErr,
                 called |-> FALSE, ok |-> TRUE, err |-> FALSE]
           h == [hist EXCEPT !.flushErr = FALSE]
       IN IF flushServicesBail(enabled, servicesModified)
          THEN /\ wpc' = AfterFlush
               /\ op' = o
               /\ hist' = h
               /\ UNCHANGED servicesModified
          ELSE IF transport = "nil"
          THEN /\ wpc' = "panicked"
               /\ op' = o
               /\ hist' = h
               /\ UNCHANGED servicesModified
          ELSE \E ok \in BOOLEAN :
               /\ wpc' = AfterFlush
               /\ servicesModified' = servicesModifiedAfter(servicesModified, ok)
               /\ op' = [o EXCEPT !.called = TRUE, !.ok = ok, !.err = ~ok]
               /\ hist' = [h EXCEPT
                             !.lastServices = [called |-> TRUE,
                                               arg |-> SendServicesArg(services),
                                               ok |-> ok],
                             !.svcSendFailed = @ \/ ~ok,
                             !.svcSucceeded = @ \/ ok,
                             !.changed = IF ok THEN FALSE ELSE @]
    /\ UNCHANGED << fixedVars, sampler, enabled, buffer, span, services, chanVars,
                    stopVars, wfinal, nbSpans, wspans, cflush >>

\* the worker goroutine
worker ==
    \/ workerTick
    \/ workerService
    \/ workerExit
    \/ drainServices
    \/ flushLen
    \/ flushPop
    \/ flushTraces
    \/ flushServices

Next ==
    \/ NewRootSpan
    \/ \E p \in SpanIDs \cup {NilSpan} : NewChildSpan(p)
    \/ \E s \in SpanIDs : record(s)
    \/ \E s \in SpanIDs : recordPush(s)
    \/ \E b \in BOOLEAN : SetEnabled(b)
    \/ \E r \in Rates : SetSampleRate(r)
    \/ \E service \in ServiceInputs : SetServiceInfo(service)
    \/ \E service \in ServiceInputs : SetServiceInfoReturn(service)
    \/ FlushTraces
    \/ FlushTracesSend
    \/ Stop
    \/ StopReturn
    \/ worker

Spec == Init /\ [][Next]_vars

\* ---------------------------------------------------------------------
\* The parts of the tracer, each with the operations that touch its state.
\* The operations left out of a part read and write none of the variables
\* its claims are about.

\* span creation and sampling: the constructors, SetSampleRate, record and
\* the callers' FlushTraces
InitSampling ==
    /\ InitWith([spans |-> MaxSpans, calls |-> 0, size |-> BufferMaxSize])
    /\ transport = "present"

NextSampling ==
    \/ NewRootSpan
    \/ \E p \in SpanIDs \cup {NilSpan} : NewChildSpan(p)
    \/ \E s \in SpanIDs : record(s)
    \/ \E s \in SpanIDs : recordPush(s)
    \/ \E r \in Rates : SetSampleRate(r)
    \/ FlushTraces
    \/ FlushTracesSend

SpecSampling == InitSampling /\ [][NextSampling]_vars

\* buffering and flushing of spans: record against FlushTraces on a caller
\* thread and flush on the worker, up to Stop, with a transport
InitTraces ==
    /\ InitWith([spans |-> MaxSpans, calls |-> 0, size |-> BufferMaxSize])
    /\ transport = "present"

NextTraces ==
    \/ NewRootSpan
    \/ \E p \in SpanIDs : NewChildSpan(p)
    \/ \E s \in SpanIDs : record(s)
    \/ \E s \in SpanIDs : recordPush(s)
    \/ \E b \in BOOLEAN : SetEnabled(b)
    \/ FlushTraces
    \/ FlushTracesSend
    \/ Stop
    \/ StopReturn
    \/ workerTick
    \/ workerExit
    \/ drainServices
    \/ flushLen
    \/ flushPop
    \/ flushTraces
    \/ flushServices

SpecTraces == InitTraces /\ [][NextTraces]_vars

\* grouping of the drained spans: a buffer that holds every span of the run,
\* drained by the worker's flush at each tick, with or without a transport
InitGrouping == InitWith([spans |-> GroupSpans, calls |-> 0, size |-> GroupSpans])

NextGrouping ==
    \/ NewRootSpan
    \/ \E p \in SpanIDs : NewChildSpan(p)
    \/ \E s \in SpanIDs : record(s)
    \/ \E s \in SpanIDs : recordPush(s)
    \/ \E b \in BOOLEAN : SetEnabled(b)
    \/ workerTick
    \/ flushLen
    \/ flushPop
    \/ flushTraces
    \/ flushServices

SpecGrouping == InitGrouping /\ [][NextGrouping]_vars

\* the service registry: SetServiceInfo against the worker, up to Stop
InitServices == InitWith([spans |-> 0, calls |-> MaxServiceCalls, size |-> BufferMaxSize])

NextServices ==
    \/ \E b \in BOOLEAN : SetEnabled(b)
    \/ \E service \in ServiceInputs : SetServiceInfo(service)
    \/ \E service \in ServiceInputs : SetServiceInfoReturn(service)
    \/ Stop
    \/ StopReturn
    \/ worker

SpecServices == InitServices /\ [][NextServices]_vars

\* record: root spans kept or not by the sampler, finished with the tracer
\* enabled or not, and drained by the callers' FlushTraces
InitRecord ==
    /\ InitWith([spans |-> MaxSpans, calls |-> 0, size |-> BufferMaxSize])
    /\ transport = "present"

NextRecord ==
    \/ NewRootSpan
    \/ \E s \in SpanIDs : record(s)
    \/ \E s \in SpanIDs : recordPush(s)
    \/ \E b \in BOOLEAN : SetEnabled(b)
    \/ \E r \in Rates : SetSampleRate(r)
    \/ FlushTraces
    \/ FlushTracesSend

SpecRecord == InitRecord /\ [][NextRecord]_vars

\* flush: traces and services together, the worker's flush at each tick
\* against record, SetEnabled and SetServiceInfo on caller threads, with or
\* without a transport.  The flush of the exit case is the same flush().
InitFlush == InitWith([spans |-> FlushSpans, calls |-> FlushServiceCalls, size |-> BufferMaxSize])

NextFlush ==
    \/ NewRootSpan
    \/ \E s \in SpanIDs : record(s)
    \/ \E s \in SpanIDs : recordPush(s)
    \/ \E b \in BOOLEAN : SetEnabled(b)
    \/ \E service \in ServiceInputs : SetServiceInfo(service)
    \/ workerTick
    \/ workerService
    \/ flushLen
    \/ flushPop
    \/ flushTraces
    \/ flushServices

SpecFlush == InitFlush /\ [][NextFlush]_vars

\* =====================================================================
\* The claims

\* C4: a child made by NewChildSpan from a non-nil parent has the parent's
\* sampling outcome and the parent's trace id, and the sampler was not run
\* on it, whatever the sampler is.
C4_ChildInheritsSampling ==
    (op.name = "NewChildSpan" /\ op.parent # NilSpan) =>
        /\ span[op.id].Sampled = span[op.parent].Sampled
        /\ span[op.id].TraceID = span[op.parent].TraceID
        /\ span[op.id].sampleCalls = 0

\* C4 happens: under the keep-all sampler a child was made from a parent that
\* is not kept, and is not kept either
C4_Witness ==
    /\ op.name = "NewChildSpan" /\ op.parent # NilSpan
    /\ sampler.all
    /\ ~span[op.parent].Sampled
    /\ ~span[op.id].Sampled

\* C5, as claimed: a span that NewChildSpan made for a nil parent has not been
\* run through the sampler and is in no SendTraces call.
C5_NilParentSpanNeverSent ==
    \A s \in SpanIDs :
        span[s].nilParent => (span[s].sampleCalls = 0 /\ s \notin hist.sent)

\* C6: SetSampleRate with a rate outside [0, 1] leaves the sampler as it was;
\* rate 1 installs keep-all, a rate in [0, 1) the rate policy with that rate;
\* a root span made after rate 1 is kept, one made after rate 0 is not.
C6_SetSampleRate ==
    /\ op.name = "SetSampleRate" =>
          IF op.rate = RateUnit THEN sampler.all
          ELSE IF op.rate >= 0 /\ op.rate < RateUnit
               THEN ~sampler.all /\ sampler.rate = op.rate
          ELSE sampler = op.before
    /\ op.name = "NewRootSpan" =>
          /\ hist.validRate = RateUnit => span[op.id].Sampled
          /\ hist.validRate = 0 => ~span[op.id].Sampled

\* C6 happens: a rate above 1 was given while a rate policy was installed
C6_Witness ==
    /\ op.name = "SetSampleRate"
    /\ op.rate > RateUnit
    /\ ~op.before.all
    /\ sampler = op.before

\* how often the span s is in the buffer
Occ(s) == Cardinality({ i \in 1 .. Len(buffer) : buffer[i] = s })

\* the kept spans whose record call, made with the tracer enabled, is over
Recorded == { s \in hist.kept : span[s].st = "finished" }

\* C1, as claimed: every kept span recorded while the tracer is enabled is in
\* the buffer, waiting for the next drain, or was returned by exactly one
\* drain (a Pop of the worker's flush or of a caller's FlushTraces).
C1_EveryRecordedSpanDrainedOnce ==
    \A s \in Recorded : Occ(s) + hist.drains[s] = 1

\* C1, amended: the same for every span whose Push found the buffer below its
\* capacity; a span pushed onto a full buffer is in no drain.
C1_AcceptedSpanDrainedOnce ==
    \A s \in Recorded :
        IF s \in hist.dropped
        THEN Occ(s) = 0 /\ hist.drains[s] = 0
        ELSE Occ(s) + hist.drains[s] = 1

\* C1 happens: a push landed while the worker's flush was between its Pop and
\* its SendTraces, holding another span, with a caller's FlushTraces running
\* at the same time
C1_Witness ==
    /\ wpc = "send" /\ wspans # << >>
    /\ cflush.active
    /\ buffer # << >>
    /\ Range(buffer) \subseteq Recorded

\* the kept spans whose record call was over before Stop was called and went
\* into the buffer
RecordedBeforeStop == (hist.recBeforeStop \cap hist.kept) \ hist.dropped

\* C3, as claimed: when Stop has returned (tracer enabled throughout,
\* transport present), every kept span recorded before the Stop call that
\* found room in the buffer is out of the buffer and has been handed to a
\* SendTraces call.
C3_StopFlushesRecordedSpans ==
    (stopReturned /\ ~hist.everDisabled /\ transport = "present") =>
        \A s \in RecordedBeforeStop : Occ(s) = 0 /\ s \in hist.sent

\* C3, amended: ... is out of the buffer, and has been handed to a SendTraces
\* call unless a FlushTraces call on a caller thread holds it between its Pop
\* and its SendTraces.
C3_StopLeavesNoRecordedSpan ==
    (stopReturned /\ ~hist.everDisabled /\ transport = "present") =>
        \A s \in RecordedBeforeStop :
            /\ Occ(s) = 0
            /\ s \in hist.sent \/ (cflush.active /\ s \in Range(cflush.spans))

\* C3 happens: Stop has returned and the spans recorded before it, more than
\* one, have all been sent, with no caller's FlushTraces in flight
C3_Witness ==
    /\ stopReturned /\ ~hist.everDisabled /\ transport = "present"
    /\ ~cflush.active
    /\ Cardinality(RecordedBeforeStop) >= 2
    /\ RecordedBeforeStop \subseteq hist.sent

\* C8: FlushTraces makes no SendTraces call when its Pop returned nothing;
\* every SendTraces call carries at least one group, and no group is empty.
C8_NoEmptySendTraces ==
    op.name = "FlushTraces" =>
        /\ op.drained = << >> => op.calls = 0
        /\ op.calls > 0 => (op.traces # {} /\ \A g \in op.traces : g # << >>)

\* C8 happens: a FlushTraces with the tracer enabled and a transport drained
\* nothing and returned
C8_Witness ==
    /\ op.name = "FlushTraces"
    /\ op.drained = << >>
    /\ op.enabled /\ transport = "present"

\* the groups of a SendTraces call partition the drained spans by trace id
PartitionByTrace(drained, traces) ==
    /\ \A s \in Range(drained) : Cardinality({ g \in traces : s \in Range(g) }) = 1
    /\ \A g \in traces :
          /\ Range(g) \subseteq Range(drained)
          /\ Len(g) = Cardinality(Range(g))
          /\ \A i, j \in 1 .. Len(g) : span[g[i]].TraceID = span[g[j]].TraceID
    /\ Cardinality(traces) = Cardinality({ span[s].TraceID : s \in Range(drained) })

\* C9, as claimed: every FlushTraces whose Pop returned spans makes exactly one
\* SendTraces call, and its groups partition the drained spans by trace id.
C9_EveryDrainSentGrouped ==
    (op.name = "FlushTraces" /\ op.drained # << >>) =>
        (op.calls = 1 /\ PartitionByTrace(op.drained, op.traces))

\* C9, amended: ... every FlushTraces that runs with the tracer enabled and a
\* transport present and whose Pop returned spans ...; with the tracer
\* disabled or no transport it makes no call.
C9_EnabledDrainSentGrouped ==
    (op.name = "FlushTraces" /\ op.drained # << >>) =>
        IF op.enabled /\ transport = "present"
        THEN op.calls = 1 /\ PartitionByTrace(op.drained, op.traces)
        ELSE op.calls = 0

\* C9 happens: three spans with two trace ids were drained and sent as two
\* groups, the span of the other trace pushed between the two of one trace
C9_Witness ==
    /\ op.name = "FlushTraces" /\ op.calls = 1
    /\ Len(op.drained) = 3
    /\ span[op.drained[1]].TraceID = span[op.drained[3]].TraceID
    /\ span[op.drained[2]].TraceID # span[op.drained[1]].TraceID
    /\ Cardinality(op.traces) = 2

\* Stop has returned, the tracer was enabled all along, the transport is
\* there and no SendServices call has failed
StoppedCleanly ==
    /\ stopReturned
    /\ ~hist.everDisabled
    /\ transport = "present"
    /\ ~hist.svcSendFailed

\* C2, as claimed: when Stop has returned (tracer enabled, transport
\* succeeding), every service whose SetServiceInfo call had returned before
\* the Stop call is in the map of the last SendServices call with the app and
\* app type that call submitted.
C2_LastUpdateInFinalMap ==
    StoppedCleanly =>
        \A m \in hist.retBeforeStop :
            hist.lastServices.called /\ hist.lastServices.arg[m.Name] = m

\* C2, amended: ... the map of the last SendServices call has an entry for
\* that service name, with the values of the last update for that name the
\* worker received: the submitted ones when no other SetServiceInfo call
\* gave different values for the same name.
C2_LastAppliedInFinalMap ==
    StoppedCleanly =>
        \A m \in hist.retBeforeStop :
            /\ hist.lastServices.called
            /\ hist.lastServices.arg[m.Name].Name = m.Name
            /\ hist.lastServices.arg[m.Name] = hist.lastApplied[m.Name]
            /\ (\A x \in hist.submitted : x.Name = m.Name => x = m)
                  => hist.lastServices.arg[m.Name] = m

\* C2 happens: Stop has returned after drainServices applied an update that
\* was still queued, and updates for both names had been submitted before Stop
C2_Witness ==
    /\ StoppedCleanly
    /\ hist.drainApplied
    /\ { m.Name : m \in hist.retBeforeStop } = Names

\* the appendService call that ran last met an entry equal to its argument
SameEntry == op.mapBefore[op.service.Name] = op.service

\* the appendService call that ran last met another entry for the name
ChangedEntry ==
    /\ op.mapBefore[op.service.Name] # NoService
    /\ op.mapBefore[op.service.Name] # op.service

\* what C7 says of appendService: an identical registration leaves the map
\* and the flag alone, a changed one replaces the entry only and sets the flag
C7_Upsert ==
    op.name = "appendService" =>
        /\ SameEntry => (services = op.mapBefore /\ servicesModified = op.modBefore)
        /\ ChangedEntry =>
              /\ services = [op.mapBefore EXCEPT ![op.service.Name] = op.service]
              /\ servicesModified

\* C7, as claimed: after a successful service flush, an identical
\* registration changes nothing and a flush with the flag false makes no
\* SendServices call; a changed registration replaces the entry and sets the
\* flag, and the next flush sends the whole current map.
C7_FlagSetFlushSendsMap ==
    /\ (op.name = "appendService" /\ op.succeededBefore) => C7_Upsert
    /\ (op.name = "flushServices" /\ op.succeededBefore) =>
          /\ ~op.modBefore => ~op.called
          /\ op.modBefore => (op.called /\ hist.lastServices.arg = services)

\* C7, amended: ... and the next flush that runs with the tracer enabled sends
\* the whole current map; one that runs with the tracer disabled sends
\* nothing and leaves the flag set.
C7_FlagSetEnabledFlushSendsMap ==
    /\ C7_Upsert
    /\ (op.name = "flushServices" /\ transport = "present") =>
          /\ ~op.modBefore => ~op.called
          /\ (op.modBefore /\ op.enabled) =>
                (op.called /\ hist.lastServices.arg = services)
          /\ (op.modBefore /\ ~op.enabled) => (~op.called /\ servicesModified)

\* C7 happens: after a successful flush an entry was changed, and the flush
\* that followed sent a map with both names in it
C7_Witness ==
    /\ op.name = "flushServices" /\ op.succeededBefore
    /\ op.modBefore /\ op.called
    /\ \A n \in Names : hist.lastServices.arg[n] # NoService
    /\ hist.lastServices.arg["n1"] \in { Service("n1", "a2", "web"), Service("n1", "a1", "db") }
    /\ Cardinality({ m \in hist.submitted : m.Name = "n1" }) = 2

\* C10, as claimed, in the form a finite run refutes: a SetServiceInfo call
\* that waits in its send on the full serviceChan still has the worker to
\* receive from the channel, so the call can return.
C10_BlockedCallHasReceiver ==
    (blocked # {} /\ Len(serviceChan) >= ServiceChanCap) => wpc # "exited"

\* C11: a disabled tracer submits nothing.  A span whose record ran with the
\* tracer disabled is finished, is not in the buffer and is in no drain and
\* in no SendTraces call; a FlushTraces that finds the tracer disabled makes
\* no SendTraces call, a flushServices that finds it disabled makes no
\* SendServices call.
C11_DisabledSubmitsNothing ==
    /\ \A s \in hist.recDisabled :
          /\ span[s].st = "finished"
          /\ Occ(s) = 0 /\ hist.drains[s] = 0
          /\ s \notin hist.sent
    /\ (op.name = "FlushTraces" /\ ~op.enabled) => (op.calls = 0 /\ op.traces = {})
    /\ (op.name = "flushServices" /\ ~op.enabled) => ~op.called

\* C11 happens: with a transport, a kept span was finished with the tracer
\* disabled, and a flushServices ran with the flag set and the tracer disabled
C11_Witness ==
    /\ transport = "present"
    /\ \E s \in hist.recDisabled : span[s].Sampled
    /\ op.name = "flushServices" /\ ~op.enabled /\ op.modBefore
    /\ servicesModified

\* what C12 says of the states: the flag is true exactly when the map has
\* changed since the last successful SendServices call; an upsert sets the
\* flag only when it changes the map and never clears it; flushServices
\* clears it only with a successful SendServices call and never sets it, and
\* the flag is clear right after a successful call.
C12_FlagStates ==
    /\ servicesModified <=> hist.changed
    /\ op.name = "appendService" =>
          /\ (servicesModified /\ ~op.modBefore) => services # op.mapBefore
          /\ op.modBefore => servicesModified
          /\ services # op.mapBefore => servicesModified
    /\ op.name = "flushServices" =>
          /\ (op.modBefore /\ ~servicesModified) => (op.called /\ op.ok)
          /\ servicesModified => op.modBefore
          /\ (op.called /\ op.ok) => ~servicesModified

\* what C12 says of the steps: only an upsert or a flushServices changes the
\* flag, and only an upsert changes the map
C12_FlagSteps ==
    /\ servicesModified' # servicesModified =>
          op'.name \in {"appendService", "flushServices"}
    /\ services' # services => op'.name = "appendService"

\* C12: in every reachable state the services-modified flag is true if and
\* only if an entry has been added or changed since the last successful
\* SendServices call; the flag is set only by an upsert that changes the map
\* and cleared only after a successful SendServices, and no upsert comes
\* between the send and the clear.
C12_FlagIffChangedSinceSend == [] C12_FlagStates /\ [][C12_FlagSteps]_vars

\* C12 happens: after a successful SendServices call cleared the flag, an
\* identical registration arrived and left the flag clear
C12_Witness ==
    /\ op.name = "appendService" /\ SameEntry
    /\ op.succeededBefore
    /\ ~op.modBefore /\ ~servicesModified

\* C13: a flushServices whose SendServices call fails returns the error and
\* leaves the flag set and the map as it was sent; as long as the latest
\* SendServices call has failed, every flushServices that finds the tracer
\* enabled, at a tick or at shutdown, calls SendServices with the map as it
\* is then.
C13_FailedSendRetried ==
    op.name = "flushServices" =>
        /\ (op.called /\ ~op.ok) =>
              /\ op.err
              /\ servicesModified
              /\ services = hist.lastServices.arg
        /\ (op.failedBefore /\ op.enabled) =>
              /\ op.called
              /\ hist.lastServices.arg = services

\* C13 happens: a SendServices call had failed, drainServices applied an
\* update after that, and the flush of the exit case sent the map again,
\* with entries for both names, this time with success
C13_Witness ==
    /\ op.name = "flushServices" /\ op.failedBefore
    /\ op.called /\ op.ok
    /\ hist.drainApplied /\ wpc = "exited"
    /\ \A n \in Names : hist.lastServices.arg[n] # NoService

\* the spans a FlushTraces call in progress holds between its Pop and its
\* SendTraces
InFlight == Range(wspans) \cup Range(cflush.spans)

\* C14: the spans of a failed SendTraces call are not put back.  They are
\* not in the buffer, no Pop has returned them a second time, no FlushTraces
\* in progress holds them, and no SendTraces call made after the failed one
\* carries any of them; after a failed FlushTraces of its own the worker goes
\* on to flushServices.
C14_FailedSpansNotPutBack ==
    /\ \A s \in hist.lost :
          /\ Occ(s) = 0
          /\ hist.drains[s] = 1
          /\ s \notin InFlight
    /\ (op.name = "FlushTraces" /\ op.calls > 0) =>
          /\ Range(op.drained) \cap op.lostBefore = {}
          /\ op.err => Range(op.drained) \subseteq hist.lost
    /\ (op.name = "FlushTraces" /\ op.byFlush) => wpc = "services"

\* C14 happens: a span was lost in a failed SendTraces call, and afterwards
\* the worker's flush drained another span and sent it with success
C14_Witness ==
    /\ op.name = "FlushTraces" /\ op.byFlush
    /\ op.calls = 1 /\ ~op.err
    /\ op.lostBefore # {}
    /\ op.drained # << >>
    /\ hist.lost = op.lostBefore

\* what C15 says of the states: a flush whose FlushTraces failed is at its
\* flushServices next, and that flushServices, with the flag set and the
\* tracer enabled, makes its SendServices call
C15_FlushStates ==
    /\ hist.flushErr => wpc = "services"
    /\ (op.name = "flushServices" /\ op.tracesFailed /\ op.modBefore /\ op.enabled) =>
          op.called

\* what C15 says of the steps: in a flush, Len, Pop and the rest of
\* FlushTraces come first, flushServices comes right after FlushTraces and
\* only there, and the flush ends with flushServices
C15_FlushSteps ==
    /\ (wpc = "flush" /\ wpc' # wpc) => wpc' = "pop"
    /\ (wpc = "pop" /\ wpc' # wpc) => wpc' = "send"
    /\ (wpc = "send" /\ wpc' # wpc) =>
          (wpc' = "services" /\ op'.name = "FlushTraces" /\ op'.byFlush)
    /\ (wpc' = "services" /\ wpc' # wpc) => wpc = "send"
    /\ (wpc = "services" /\ wpc' # wpc) => op'.name = "flushServices"
    /\ op'.name = "flushServices" => wpc = "services"

\* C15: every flush() runs FlushTraces and then flushServices, and a failed
\* FlushTraces does not keep flushServices from running: with the flag set
\* and the tracer enabled, a flush whose SendTraces call failed makes its
\* SendServices call.
C15_FlushRunsBoth == [] C15_FlushStates /\ [][C15_FlushSteps]_vars

\* C15 happens: in one flush SendTraces failed on a drained span, and
\* flushServices then sent the modified map
C15_Witness ==
    /\ op.name = "flushServices"
    /\ op.tracesFailed /\ op.modBefore /\ op.enabled
    /\ op.called
    /\ hist.lost # {}

\* C16, as claimed: when the FlushTraces of a flush fails on SendTraces, the
\* number of lost spans that flush logs is the number of spans this flush
\* drained and handed to the failed call.
C16_LostCountIsDrained ==
    (op.name = "FlushTraces" /\ op.byFlush /\ op.err) => op.lost = Len(op.drained)

\* the worker's states of spec 4.6: Running (1), Draining (2), Stopped (3)
WorkerState == IF wpc = "exited" THEN 3 ELSE IF wfinal THEN 2 ELSE 1

\* where the worker is within the exit case: drainServices, then flush with
\* its four steps, then the return
ExitCasePos ==
    CASE wpc = "drain" -> 1
      [] wpc = "flush" -> 2
      [] wpc = "pop" -> 3
      [] wpc = "send" -> 4
      [] wpc = "services" -> 5
      [] wpc = "exited" -> 6
      [] OTHER -> 0

\* what C17 says of the states: the worker leaves Running only after Stop
\* was called, the flush of the exit case comes to its end, and Stop has
\* returned only when the worker has exited
C17_StopStates ==
    /\ WorkerState > 1 => exitClosed
    /\ WorkerState = 2 => ExitCasePos > 0
    /\ stopReturned => WorkerState = 3

\* what C17 says of the steps: the worker never goes back to an earlier
\* state; in the exit case it applies the queued updates until the channel
\* is empty, then runs one flush from its first step to its last, then exits;
\* once it has exited it applies no update and runs no flush
C17_StopSteps ==
    /\ WorkerState' >= WorkerState
    /\ (WorkerState = 1 /\ WorkerState' # 1) => (WorkerState' = 2 /\ wpc' = "drain")
    /\ (WorkerState = 2 /\ wpc' # wpc) => ExitCasePos' = ExitCasePos + 1
    /\ (wpc = "drain" /\ wpc' # wpc) => serviceChan = << >>
    /\ WorkerState = 3 =>
          /\ wpc' = wpc
          /\ op'.name \notin {"appendService", "flushServices"}
          /\ services' = services

\* C17, as claimed, in the form a finite run refutes: after Stop the worker
\* goes from Running to Draining to Stopped and never back; it applies every
\* queued service update, then runs exactly one final flush to its end, then
\* exits, and Stop returns only after that; nothing runs on the worker after
\* the final flush.
C17_StopDrainsFlushesExits == [] C17_StopStates /\ [][C17_StopSteps]_vars

\* Stop with a transport present, under the scheduling the code relies on:
\* the worker goroutine keeps running, the select takes the exit case at
\* some point once exit is closed (Go chooses among the ready cases at
\* random), and exitWG.Wait returns once the worker is done
InitStop == InitServices /\ transport = "present"

FairStop ==
    /\ InitStop /\ [][NextServices]_vars
    /\ WF_vars(worker)
    /\ SF_vars(workerExit)
    /\ WF_vars(StopReturn)

\* with a transport present, a Stop call returns
StopReturns == exitClosed ~> stopReturned

\* C18: every span in the buffer is kept and went through record's test with
\* the tracer enabled; a finished span that is not kept is not in the buffer
\* and in no drain, and no SendTraces call carries a span that is not kept.
C18_BufferHoldsKeptSpans ==
    /\ \A s \in Range(buffer) :
          /\ span[s].Sampled
          /\ s \in hist.kept /\ s \notin hist.recDisabled
    /\ \A s \in SpanIDs :
          (span[s].st = "finished" /\ ~span[s].Sampled) =>
              (Occ(s) = 0 /\ hist.drains[s] = 0)
    /\ \A s \in hist.sent \cup InFlight : span[s].Sampled

\* C18 happens: with the tracer enabled all along, a span that is not kept
\* was finished while the buffer held a kept span
C18_Witness ==
    /\ ~hist.everDisabled
    /\ buffer # << >>
    /\ \E s \in SpanIDs : span[s].st = "finished" /\ ~span[s].Sampled

\* C19: a FlushTraces that finds the tracer disabled or has no transport has
\* taken the buffered spans out before its test, makes no SendTraces call
\* and returns no error; the spans it drained, recorded with the tracer
\* enabled, are not in the buffer, are in no later drain and in no SendTraces
\* call, whatever SetEnabled does afterwards.
C19_DisabledFlushDiscards ==
    /\ (op.name = "FlushTraces" /\ (~op.enabled \/ transport = "nil")) =>
          /\ op.calls = 0 /\ ~op.err
          /\ Range(op.drained) \subseteq hist.discarded
    /\ \A s \in hist.discarded :
          /\ s \in hist.kept
          /\ Occ(s) = 0
          /\ hist.drains[s] = 1
          /\ s \notin hist.sent
          /\ s \notin InFlight

\* C19 happens: with a transport, a span was drained by a flush that found
\* the tracer disabled; the tracer was enabled again and a later flush sent
\* another span, not that one
C19_Witness ==
    /\ transport = "present" /\ enabled
    /\ hist.discarded # {}
    /\ op.name = "FlushTraces" /\ op.enabled /\ op.calls = 1
    /\ Range(op.drained) \cap hist.discarded = {}

\* C20, as claimed: with a nil transport a flush never fails: FlushTraces and
\* flushServices come to their end without a call on the transport, also
\* with the flag set and the tracer enabled.
C20_NilTransportFlushCompletes ==
    transport = "nil" =>
        /\ wpc # "panicked"
        /\ op.name = "FlushTraces" => (op.calls = 0 /\ ~op.err)
        /\ op.name = "flushServices" => ~op.called

====
